---- MODULE Spec2Model ----
(***************************************************************************)
(* A model of generate_csv.py: the resumable, parallel conversion of a     *)
(* corpus of .dot graph files into lmoments.csv (the Result Sink) and      *)
(* unprocessed_files.csv (the Failure Sink).                               *)
(*                                                                         *)
(* Text is modelled as a sequence of one-character tokens, except that     *)
(* the directory names and the extension are single tokens, so that        *)
(* str.strip() and str.endswith() are computed and not assumed.            *)
(*                                                                         *)
(* A file's content is abstracted to what each stage of process_file does  *)
(* with it (parses or not, node and edge counts, connectivity, whether a   *)
(* centrality call raises, the shape of each per-node series); the graph   *)
(* library itself is outside the repository. Floats are exact fractions,   *)
(* nan or inf, and the L-moments of a series are computed from them.       *)
(*                                                                         *)
(* A buffered row reaches the disk at flush() or close() in one write, so  *)
(* a crash leaves a row wholly on disk or not at all.                      *)
(*                                                                         *)
(* The program never reads unprocessed_files.csv, it tests that the file    *)
(* exists and appends to it: the model keeps whether the file exists and   *)
(* the rows appended since the current run started. The rows of earlier    *)
(* runs stay in the file; nothing in the program depends on them.          *)
(*                                                                         *)
(* main() may be run any number of times; the corpus grows between runs.   *)
(*                                                                         *)
(* Spec is main() with its pool. FairSpec is Spec without the crash and    *)
(* with every step of main() and of the workers taken when it can be.      *)
(* ItemSpec is one call of process_file and LmomSpec one call of           *)
(* calculate_lmoments, each on an argument drawn from a bounded set.       *)
(***************************************************************************)
EXTENDS Integers, Sequences, FiniteSets, TLC

\* ------------------------------------------------------------------ bounds
\* Files the corpus holds at most.
MaxFiles == 3
\* Worker processes of the pool (the code starts 25).
NumWorkers == 2

\* ------------------------------------------------------------------- text
Whitespace == {" "}

RECURSIVE lstrip(_)
lstrip(s) ==
    IF s # <<>> /\ Head(s) \in Whitespace THEN lstrip(Tail(s)) ELSE s

RECURSIVE rstrip(_)
rstrip(s) ==
    IF s # <<>> /\ s[Len(s)] \in Whitespace
    THEN rstrip(SubSeq(s, 1, Len(s) - 1))
    ELSE s

\* str.strip()
strip(s) == rstrip(lstrip(s))

\* filename.endswith('.dot')
endswith_dot(filename) == filename # <<>> /\ filename[Len(filename)] = ".dot"

\* os.path.join(root, filename)
path_join(root, filename) == <<root, "/">> \o filename

malicious_directory == "Malicious"
nonmalicious_directory == "Nonmalicious"

\* ----------------------------------------------------------------- corpus
\* What a .dot file holds, as far as process_file can tell: whether read_dot
\* parses it, the node and edge counts of the graph, whether the graph is
\* strongly connected ("strong"), connected only as an undirected graph
\* ("weak") or not connected ("none"), whether a centrality call raises, and
\* the shape of each of the four per-node series.
Content(parses, nodes, edges, connectivity, centrality_raises, shapes) ==
    [parses |-> parses, nodes |-> nodes, edges |-> edges,
     connectivity |-> connectivity, centrality_raises |-> centrality_raises,
     shapes |-> shapes]

Plain == <<"distinct", "distinct", "distinct", "distinct">>

\* The files the corpus may hold: directory, file name and content.
Universe ==
    { [dir |-> "Malicious",    filename |-> <<"a", ".dot">>,
       content |-> Content(TRUE, 4, 4, "strong", FALSE, Plain)],
      [dir |-> "Nonmalicious", filename |-> <<" ", "b", ".dot">>,
       content |-> Content(TRUE, 4, 2, "none", FALSE,
                           <<"distinct", "distinct", "distinct", "constant">>)],
      [dir |-> "Malicious",    filename |-> <<"c", ".dot">>,
       content |-> Content(FALSE, 0, 0, "none", FALSE, Plain)],
      [dir |-> "Nonmalicious", filename |-> <<"d", ".dot">>,
       content |-> Content(TRUE, 2, 0, "none", FALSE, Plain)],
      [dir |-> "Malicious",    filename |-> <<"e", ".dot">>,
       content |-> Content(TRUE, 3, 2, "weak", FALSE, Plain)],
      [dir |-> "Nonmalicious", filename |-> <<"f", ".dot">>,
       content |-> Content(TRUE, 4, 4, "strong", TRUE, Plain)],
      [dir |-> "Malicious",    filename |-> <<"g", ".dot">>,
       content |-> Content(TRUE, 4, 4, "strong", FALSE,
                           <<"distinct", "object", "distinct", "distinct">>)],
      [dir |-> "Malicious",    filename |-> <<"h", ".txt">>,
       content |-> Content(TRUE, 4, 4, "strong", FALSE, Plain)] }

FilePath(f) == path_join(f.dir, f.filename)

VARIABLES
    corpus,                 \* the files under the two directories
    outFile,                \* lmoments.csv on disk
    outBuf,                 \* rows written to csvfile and not yet flushed
    failFile,               \* unprocessed_files.csv: whether it exists, and
                            \* the rows appended since this run started
    pc,                     \* where main() is
    processed_files,        \* the global set, in the orchestrator
    file_paths,             \* the (file_path, is_malicious) pairs of this run
    total_files,
    processed_files_count,
    tasks,                  \* items of file_paths no worker has taken yet
    worker,                 \* each worker: what it does, on which item
    worker_processed_files, \* the global set as the workers see it
    outqueue,               \* results of the workers, in completion order
    outBase,                \* rows of outFile when this run started
    returned,               \* identities for which write_result_to_csv returned
    writers,                \* which process has written which sink
    doneSince,              \* runs completed since the corpus last changed
    completedRows,          \* data rows of outFile when the first of them completed
    args,                   \* one call of process_file: what it is given
    outcome,                \* and what it logged, returned and ran
    sample,                 \* one call of calculate_lmoments: its argument
    estimate                \* and what it returned

\* The variables of a run of main().
runVars == <<corpus, outFile, outBuf, failFile, pc, processed_files, file_paths,
             total_files, processed_files_count, tasks, worker,
             worker_processed_files, outqueue, outBase, returned,
             writers, doneSince, completedRows>>

\* The variables of a single call of process_file or of calculate_lmoments.
callVars == <<args, outcome, sample, estimate>>

vars == <<runVars, callVars>>

Workers == 1..NumWorkers

\* ------------------------------------------------------- the two csv files
\* The columns main() writes when lmoments.csv is empty.
columns ==
    << <<"Filename">>, "Malicious/Nonmalicious", "Number of Nodes",
       "Number of Edges", "Average Degree", "Density", "Diameter",
       "Average Clustering", "Average Path Length",
       "Degree L1", "Degree L2", "Degree T3", "Degree T4",
       "Betweenness L1", "Betweenness L2", "Betweenness T3", "Betweenness T4",
       "Closeness L1", "Closeness L2", "Closeness T3", "Closeness T4",
       "Clustering L1", "Clustering L2", "Clustering T3", "Clustering T4" >>

\* The header main() writes to unprocessed_files.csv.
unprocessed_header == << <<"Filename">>, "Error Message" >>

\* A csv file on disk: whether it exists, and its rows.
AbsentFile == [exists |-> FALSE, rows |-> <<>>]

\* os.path.exists
exists(file) == file.exists

\* os.stat(path).st_size, in rows
st_size(file) == Len(file.rows)

RECURSIVE FirstColumns(_)
FirstColumns(rows) ==
    IF rows = <<>> THEN {}
    ELSE {strip(Head(rows)[1])} \cup FirstColumns(Tail(rows))

\* get_processed_files skipping two rows instead of one.
get_processed_files_skip2(file) ==
    IF exists(file) /\ Len(file.rows) >= 2
    THEN FirstColumns(Tail(Tail(file.rows)))
    ELSE {}

\* get_processed_files: the first column, stripped, of every row but the first
\* (next(reader, None) skips one row, whatever it is).
get_processed_files(file) ==
    IF exists(file) /\ file.rows # <<>>
    THEN FirstColumns(Tail(file.rows))
    ELSE {}

\* ---------------------------------------------------------------- numbers
\* A float is a record: a finite value is the fraction n/d in lowest terms
\* with d > 0, so that equal values are equal records; nan and inf are the
\* two values np.isfinite rejects; "obj" is a value that is not a number.
\* The arithmetic is written as functions, which take values.
Float == [k : {"num", "nan", "inf", "obj"}, n : Int, d : Int]

Num(n) == [k |-> "num", n |-> n, d |-> 1]
NaN == [k |-> "nan", n |-> 0, d |-> 1]
Inf == [k |-> "inf", n |-> 0, d |-> 1]
NotANumber == [k |-> "obj", n |-> 0, d |-> 1]

abs(a) == IF a < 0 THEN -a ELSE a

gcd[a \in Nat, b \in Nat] == IF b = 0 THEN a ELSE gcd[b, a % b]

\* The fraction n/d, d # 0, in lowest terms.
Rat[n \in Int, d \in Int] ==
    LET g == gcd[abs(n), abs(d)]
        s == IF d < 0 THEN -1 ELSE 1
    IN  [k |-> "num", n |-> s * (n \div g), d |-> s * (d \div g)]

add[a \in Float, b \in Float] == Rat[a.n * b.d + b.n * a.d, a.d * b.d]
subtract[a \in Float, b \in Float] == Rat[a.n * b.d - b.n * a.d, a.d * b.d]
multiply[c \in Int, a \in Float] == Rat[c * a.n, a.d]
less[a \in Float, b \in Float] == a.n * b.d < b.n * a.d

\* a / b of two numpy floats: a zero divisor gives nan or inf (and a
\* warning), not an exception.
true_divide[a \in Float, b \in Float] ==
    IF b.n # 0 THEN Rat[a.n * b.d, a.d * b.n]
    ELSE IF a.n = 0 THEN NaN ELSE Inf

\* np.isfinite
isfinite(v) == v.k = "num"

\* str() of a float, as csv.writer writes it: one text for each value.
format_float(v) ==
    CASE v.k = "nan" -> "nan"
      [] v.k = "inf" -> "inf"
      [] v.k = "num" /\ v.d = 1 -> ToString(v.n)
      [] OTHER -> ToString(v.n) \o "/" \o ToString(v.d)

insert[v \in Float, s \in Seq(Float)] ==
    IF s = <<>> THEN <<v>>
    ELSE IF less[Head(s), v] THEN <<Head(s)>> \o insert[v, Tail(s)]
    ELSE <<v>> \o s

\* x.sort()
sort[s \in Seq(Float)] ==
    IF s = <<>> THEN <<>> ELSE insert[Head(s), sort[Tail(s)]]

\* The binomial coefficient.
comb[n \in Nat, r \in Nat] ==
    IF r = 0 THEN 1
    ELSE IF n = 0 THEN 0
    ELSE comb[n - 1, r - 1] + comb[n - 1, r]

weighted_sum[x \in Seq(Float), r \in Nat, i \in Nat] ==
    IF i = 0 THEN Num(0)
    ELSE add[weighted_sum[x, r, i - 1], multiply[comb[i - 1, r], x[i]]]

\* The probability-weighted moment b_r of the sorted values x:
\* (1/n) * sum over i of C(i-1, r) / C(n-1, r) * x[i].
pwm[x \in Seq(Float), r \in Nat] ==
    multiply[1, [k |-> "num", n |-> weighted_sum[x, r, Len(x)].n,
                 d |-> weighted_sum[x, r, Len(x)].d * Len(x)
                         * comb[Len(x) - 1, r]]]

\* b0, b1, b2, b3 of the sorted values.
pwms[x \in Seq(Float)] == <<pwm[x, 0], pwm[x, 1], pwm[x, 2], pwm[x, 3]>>

\* The sample L-moments l1, l2, l3, l4 from b == <<b0, b1, b2, b3>>.
l_moments[b \in Seq(Float)] ==
    << b[1],
       subtract[multiply[2, b[2]], b[1]],
       add[subtract[multiply[6, b[3]], multiply[6, b[2]]], b[1]],
       subtract[add[subtract[multiply[20, b[4]], multiply[30, b[3]]],
                    multiply[12, b[2]]], b[1]] >>

\* l1, l2 and the ratios l3/l2, l4/l2: plain floating-point divisions.
ratios[l \in Seq(Float)] ==
    <<l[1], l[2], true_divide[l[3], l[2]], true_divide[l[4], l[2]]>>

\* The number of L-moments calculate_lmoments asks for.
nmom == 4

\* lmoments.lmom_ratios(data, nmom=4) of the lmoments3 library: the sample
\* L-moments l1, l2 and the ratios l3/l2, l4/l2 of the sorted data. Fewer
\* values than nmom raise.
lmom_ratios[data \in Seq(Float)] ==
    IF Len(data) < nmom THEN [raised |-> TRUE, v |-> <<>>]
    ELSE [raised |-> FALSE, v |-> ratios[l_moments[pwms[sort[data]]]]]

\* ------------------------------------------------------- calculate_lmoments
\* calculate_lmoments returning the moments in another order.
calculate_lmoments_swapped(values) ==
    IF \E i \in DOMAIN values : values[i].k = "obj"
    THEN [raised |-> TRUE, v |-> <<>>]
    ELSE IF Len(SelectSeq(values, isfinite)) < 4
    THEN [raised |-> FALSE, v |-> <<Num(0), Num(0), Num(0), Num(0)>>]
    ELSE [raised |-> FALSE,
          v |-> [i \in 1..4 |->
                   lmom_ratios[SelectSeq(values, isfinite)].v[<<2, 1, 3, 4>>[i]]]]

\* calculate_lmoments asking for four values before discarding the
\* non-finite ones.
calculate_lmoments_counts_all(values) ==
    IF \E i \in DOMAIN values : values[i].k = "obj"
    THEN [raised |-> TRUE, v |-> <<>>]
    ELSE IF Len(values) < 4
    THEN [raised |-> FALSE, v |-> <<Num(0), Num(0), Num(0), Num(0)>>]
    ELSE lmom_ratios[SelectSeq(values, isfinite)]

\* calculate_lmoments: the non-finite values are discarded (np.isfinite
\* raises on a value that is not a number); fewer than four values left give
\* 0, 0, 0, 0; otherwise the four values of lmom_ratios are returned as they
\* are. The record says whether a call raised.
calculate_lmoments(values) ==
    IF \E i \in DOMAIN values : values[i].k = "obj"
    THEN [raised |-> TRUE, v |-> <<>>]
    ELSE IF Len(SelectSeq(values, isfinite)) < 4
    THEN [raised |-> FALSE, v |-> <<Num(0), Num(0), Num(0), Num(0)>>]
    ELSE lmom_ratios[SelectSeq(values, isfinite)]

\* ------------------------------------------------------------ process_file
\* A Python value that may be None is a record with a field none.
NoGraph ==
    [none |-> TRUE, nodes |-> 0, edges |-> 0, connectivity |-> "none",
     centrality_raises |-> FALSE, shapes |-> Plain]
NoResult == [none |-> TRUE, row |-> <<>>]
NoSeries == [none |-> TRUE, values |-> <<>>]

\* str() of the small integers the model uses.
str(n) == <<"0", "1", "2", "3", "4", "5", "6", "7", "8", "9">>[n + 1]

\* The file of the corpus universe at a path.
FileAt(file_path) == CHOOSE f \in Universe : FilePath(f) = file_path

Graph(content) ==
    [none |-> FALSE, nodes |-> content.nodes, edges |-> content.edges,
     connectivity |-> content.connectivity,
     centrality_raises |-> content.centrality_raises,
     shapes |-> content.shapes]

\* nx.DiGraph(nx.nx_pydot.read_dot(file_path)) of a file with this content:
\* whether it raised, and the graph.
read_dot(content) ==
    IF content.parses
    THEN [raised |-> FALSE, G |-> Graph(content)]
    ELSE [raised |-> TRUE,  G |-> NoGraph]

\* parse_network_data: the graph or None, and the rows it logs.
parse_network_data(file_path, content) ==
    LET r == read_dot(content) IN
    IF r.raised
    THEN [G |-> NoGraph, log |-> << <<file_path, "Error parsing">> >>]
    ELSE [G |-> r.G, log |-> <<>>]

\* nx.is_connected(G.to_undirected())
is_connected(G) == G.connectivity # "none"

\* nx.diameter(G) and nx.average_shortest_path_length(G) of a directed graph:
\* they raise when the graph is not strongly connected.
path_lengths_raise(G) == G.connectivity # "strong"

\* calculate_statistics calling nx.diameter whatever the connectivity.
calculate_statistics_unguarded(G) ==
    IF path_lengths_raise(G)
    THEN [none |-> TRUE, num_nodes |-> 0, v |-> <<>>]
    ELSE [none |-> FALSE, num_nodes |-> G.nodes,
          v |-> <<str(G.nodes), str(G.edges), "avg_degree", "density",
                  "diameter", "avg_clustering", "avg_path_length">>]

\* calculate_statistics: the seven statistics, or None when a call raises.
\* The diameter and the average path length are computed for a connected
\* graph and are float('nan') otherwise.
calculate_statistics(G) ==
    IF is_connected(G) /\ path_lengths_raise(G)
    THEN [none |-> TRUE, num_nodes |-> 0, v |-> <<>>]
    ELSE [none |-> FALSE, num_nodes |-> G.nodes,
          v |-> <<str(G.nodes), str(G.edges), "avg_degree", "density",
                  IF is_connected(G) THEN "diameter" ELSE format_float(NaN),
                  "avg_clustering",
                  IF is_connected(G) THEN "avg_path_length"
                  ELSE format_float(NaN)>>]

\* One value per node: all different, all zero, or not numbers.
Series(shape, n) ==
    [none |-> FALSE,
     values |-> [i \in 1..n |->
                    CASE shape = "constant" -> Num(0)
                      [] shape = "object"   -> NotANumber
                      [] OTHER              -> Num(i)]]

\* calculate_centrality_measures: the four series (degree, betweenness,
\* closeness, clustering), or four None.
calculate_centrality_measures(G) ==
    IF G.centrality_raises
    THEN <<NoSeries, NoSeries, NoSeries, NoSeries>>
    ELSE <<Series(G.shapes[1], G.nodes), Series(G.shapes[2], G.nodes),
           Series(G.shapes[3], G.nodes), Series(G.shapes[4], G.nodes)>>

\* The four values of a summary as csv.writer writes them.
written(lmoments) == [i \in 1..4 |-> format_float(lmoments.v[i])]

\* The row with the clustering summary before the degree summary.
build_row_reordered(file_path, is_malicious, G) ==
    LET malware_name == IF is_malicious THEN "Malicious" ELSE "Nonmalicious"
        stats == calculate_statistics(G)
        centrality == calculate_centrality_measures(G)
        degree_lmoments == calculate_lmoments(centrality[1].values)
        betweenness_lmoments == calculate_lmoments(centrality[2].values)
        closeness_lmoments == calculate_lmoments(centrality[3].values)
        clustering_lmoments == calculate_lmoments(centrality[4].values)
    IN  IF \/ degree_lmoments.raised \/ betweenness_lmoments.raised
           \/ closeness_lmoments.raised \/ clustering_lmoments.raised
        THEN [raised |-> TRUE, row |-> <<>>]
        ELSE [raised |-> FALSE,
              row |-> <<file_path, malware_name>> \o stats.v
                      \o written(clustering_lmoments)
                      \o written(betweenness_lmoments)
                      \o written(closeness_lmoments)
                      \o written(degree_lmoments)]

\* process_file, lines 123-130: the four L-moment summaries and the row;
\* raised when a call of calculate_lmoments raised.
build_row(file_path, is_malicious, G) ==
    LET malware_name == IF is_malicious THEN "Malicious" ELSE "Nonmalicious"
        stats == calculate_statistics(G)
        centrality == calculate_centrality_measures(G)
        degree_lmoments == calculate_lmoments(centrality[1].values)
        betweenness_lmoments == calculate_lmoments(centrality[2].values)
        closeness_lmoments == calculate_lmoments(centrality[3].values)
        clustering_lmoments == calculate_lmoments(centrality[4].values)
    IN  IF \/ degree_lmoments.raised \/ betweenness_lmoments.raised
           \/ closeness_lmoments.raised \/ clustering_lmoments.raised
        THEN [raised |-> TRUE, row |-> <<>>]
        ELSE [raised |-> FALSE,
              row |-> <<file_path, malware_name>> \o stats.v
                      \o written(degree_lmoments)
                      \o written(betweenness_lmoments)
                      \o written(closeness_lmoments)
                      \o written(clustering_lmoments)]

\* What process_file returns and logs when it rejects an item, and the
\* stages it ran from line 94 on.
reject(file_path, message, ran) ==
    [log |-> << <<file_path, message>> >>, result |-> NoResult, ran |-> ran]

\* process_file with the success logged to unprocessed_files.csv as well.
process_graph_logs_success(file_path, is_malicious, G) ==
    IF G.none \/ G.nodes = 0 \/ G.edges = 0
    THEN reject(file_path, "Graph is empty or couldn't be parsed.",
                <<"empty_check">>)
    ELSE IF calculate_statistics(G).none
    THEN reject(file_path, "Error calculating statistics",
                <<"empty_check", "statistics">>)
    ELSE IF calculate_centrality_measures(G)[1].none
    THEN reject(file_path, "Error calculating centrality measures",
                <<"empty_check", "statistics", "centrality">>)
    ELSE IF build_row(file_path, is_malicious, G).raised
    THEN reject(file_path, "Error processing",
                <<"empty_check", "statistics", "centrality", "lmoments">>)
    ELSE [log |-> << <<file_path, "Finished processing">> >>,
          result |-> [none |-> FALSE,
                      row |-> build_row(file_path, is_malicious, G).row],
          ran |-> <<"empty_check", "statistics", "centrality", "lmoments",
                    "row">>]

\* process_file with the failure of calculate_statistics not logged.
process_graph_silent_stats(file_path, is_malicious, G) ==
    IF G.none \/ G.nodes = 0 \/ G.edges = 0
    THEN reject(file_path, "Graph is empty or couldn't be parsed.",
                <<"empty_check">>)
    ELSE IF calculate_statistics(G).none
    THEN [log |-> <<>>, result |-> NoResult,
          ran |-> <<"empty_check", "statistics">>]
    ELSE IF calculate_centrality_measures(G)[1].none
    THEN reject(file_path, "Error calculating centrality measures",
                <<"empty_check", "statistics", "centrality">>)
    ELSE IF build_row(file_path, is_malicious, G).raised
    THEN reject(file_path, "Error processing",
                <<"empty_check", "statistics", "centrality", "lmoments">>)
    ELSE [log |-> <<>>,
          result |-> [none |-> FALSE,
                      row |-> build_row(file_path, is_malicious, G).row],
          ran |-> <<"empty_check", "statistics", "centrality", "lmoments",
                    "row">>]

\* process_file from line 94 on: the row it logs, if any, what it returns,
\* and the stages it ran, in order.
process_graph(file_path, is_malicious, G) ==
    LET stats == calculate_statistics(G)
        centrality == calculate_centrality_measures(G)
        built == build_row(file_path, is_malicious, G)
    IN  IF G.none \/ G.nodes = 0 \/ G.edges = 0
        THEN reject(file_path, "Graph is empty or couldn't be parsed.",
                    <<"empty_check">>)
        ELSE IF stats.none
        THEN reject(file_path, "Error calculating statistics",
                    <<"empty_check", "statistics">>)
        ELSE IF stats.num_nodes = 0
        THEN reject(file_path, "Number of nodes is zero",
                    <<"empty_check", "statistics">>)
        ELSE IF centrality[1].none
        THEN reject(file_path, "Error calculating centrality measures",
                    <<"empty_check", "statistics", "centrality">>)
        ELSE IF built.raised
        THEN reject(file_path, "Error processing",
                    <<"empty_check", "statistics", "centrality", "lmoments">>)
        ELSE [log |-> <<>>, result |-> [none |-> FALSE, row |-> built.row],
              ran |-> <<"empty_check", "statistics", "centrality",
                        "lmoments", "row">>]

\* process_graph on the graph of each file of the universe, under either
\* label: what a worker that holds the graph of the file gets.
graph_outcomes ==
    [f \in Universe, is_malicious \in BOOLEAN |->
        process_graph(FilePath(f), is_malicious, read_dot(f.content).G)]

\* process_file: an item whose path the worker's set holds is skipped
\* without a word; otherwise the file is parsed and the graph processed.
process_file(file_path, is_malicious, content, ledger) ==
    LET parsed == parse_network_data(file_path, content)
        rest == process_graph(file_path, is_malicious, parsed.G)
    IN  IF file_path \in ledger
        THEN [log |-> <<>>, result |-> NoResult, ran |-> <<>>]
        ELSE [log |-> parsed.log \o rest.log, result |-> rest.result,
              ran |-> <<"parse">> \o rest.ran]

\* log_unprocessed_file: open(..., 'a') creates the file, the row is appended.
log_unprocessed_file(file, row) ==
    [exists |-> TRUE, rows |-> Append(file.rows, row)]

\* unprocessed_files.csv as a new run finds it: nothing appended yet.
found_by_run(file) == [exists |-> file.exists, rows |-> <<>>]

RECURSIVE log_all(_, _)
log_all(file, log) ==
    IF log = <<>> THEN file
    ELSE log_all(log_unprocessed_file(file, Head(log)), Tail(log))

\* ------------------------------------------------------------------- main
\* writer.writerow(row): the row goes to the buffer of csvfile.
writerow(buf, row) == Append(buf, row)

\* flush() left out: the rows stay in the buffer.
flush_missing(file, buf) == [file |-> file, buf |-> buf]

\* flush() writing the buffer over the file instead of at its end.
flush_overwrite(file, buf) ==
    [file |-> [exists |-> TRUE, rows |-> buf], buf |-> <<>>]

\* csvfile.flush(): the buffer goes to the disk, at the end of the file.
flush(file, buf) ==
    [file |-> [exists |-> TRUE, rows |-> file.rows \o buf], buf |-> <<>>]

\* The end of the with block of csvfile: close() writes the buffer out.
close(file, buf) == [exists |-> TRUE, rows |-> file.rows \o buf]

\* open(output_csv, mode='w'): the file is emptied.
open_truncate(file) == [exists |-> TRUE, rows |-> <<>>]

\* open(output_csv, mode='a'): the file is created when absent, and kept.
open_append(file) == [exists |-> TRUE, rows |-> file.rows]

\* The header written by every run.
header_rows_always(file) == <<columns>>

\* The header of main(): written when the file is empty.
header_rows(file) == IF st_size(file) = 0 THEN <<columns>> ELSE <<>>

\* The walk without the test against the processed files.
walk_all(files, directory, is_malicious, ledger) ==
    { <<FilePath(f), is_malicious>> :
        f \in { g \in files : g.dir = directory /\ endswith_dot(g.filename) } }

\* The two os.walk loops of main(): the items not yet processed. The list
\* holds no path twice, and its order is the order of the walk, which is
\* any order: the model keeps the set.
walk(files, directory, is_malicious, ledger) ==
    { <<FilePath(f), is_malicious>> :
        f \in { g \in files : /\ g.dir = directory
                              /\ endswith_dot(g.filename)
                              /\ FilePath(g) \notin ledger } }

enumerate(files, ledger) ==
    walk(files, malicious_directory, TRUE, ledger)
        \cup walk(files, nonmalicious_directory, FALSE, ledger)

IdleWorker == [st |-> "idle", item |-> <<<<>>, FALSE>>, G |-> NoGraph]

\* The data rows of lmoments.csv: every row but the header.
DataRows(file) == SelectSeq(file.rows, LAMBDA r : r[1] # columns[1])

NotRunning == {"idle", "done", "crashed"}
PoolAlive == {"recv", "flush"}

\* No call of process_file or calculate_lmoments is under study.
NoArgs ==
    [file_path |-> <<>>, is_malicious |-> FALSE,
     content |-> Content(FALSE, 0, 0, "none", FALSE, Plain), ledger |-> {}]
NotCalled == [done |-> FALSE, log |-> <<>>, result |-> NoResult, ran |-> <<>>]
NotEstimated == [done |-> FALSE, raised |-> FALSE, v |-> <<>>]

CallIdle ==
    /\ args = NoArgs
    /\ outcome = NotCalled
    /\ sample = <<>>
    /\ estimate = NotEstimated

RunInit ==
    /\ corpus = {}
    /\ outFile = AbsentFile
    /\ outBuf = <<>>
    /\ failFile = AbsentFile
    /\ pc = "idle"
    /\ processed_files = {}
    /\ file_paths = {}
    /\ total_files = 0
    /\ processed_files_count = 0
    /\ tasks = {}
    /\ worker = [w \in Workers |-> IdleWorker]
    /\ worker_processed_files = {}
    /\ outqueue = <<>>
    /\ outBase = 0
    /\ returned = {}
    /\ writers = {}
    /\ doneSince = 0
    /\ completedRows = <<>>

Init == RunInit /\ CallIdle

\* A file appears in the corpus between two runs.
AddFile ==
    /\ pc \in NotRunning
    /\ Cardinality(corpus) < MaxFiles
    /\ \E f \in Universe \ corpus : corpus' = corpus \cup {f}
    /\ doneSince' = 0
    /\ UNCHANGED <<outFile, outBuf, failFile, pc, processed_files, file_paths,
                   total_files, processed_files_count, tasks, worker,
                   worker_processed_files, outqueue, outBase,
                   returned, writers, completedRows>>

\* What a return of main() records.
Completed(file) ==
    /\ doneSince' = IF doneSince < 2 THEN doneSince + 1 ELSE doneSince
    /\ completedRows' = IF doneSince = 0 THEN DataRows(file) ELSE completedRows

\* main() going on with no file to process.
nothing_to_process_ignored(paths) == FALSE

\* main(), line 191: if not file_paths.
nothing_to_process(paths) == paths = {}

\* main(), lines 159-196: the failure log is initialised, the processed files
\* are read, the two directories are walked; main returns when nothing is left.
StartRun ==
    /\ pc \in NotRunning
    /\ failFile' = IF exists(failFile) THEN found_by_run(failFile)
                   ELSE log_unprocessed_file(found_by_run(failFile),
                                             unprocessed_header)
    /\ writers' = IF exists(failFile) THEN writers
                  ELSE writers \cup {<<"failure", "orchestrator">>}
    /\ processed_files' = get_processed_files(outFile)
    /\ file_paths' = enumerate(corpus, processed_files')
    /\ total_files' = Cardinality(file_paths')
    /\ processed_files_count' = 0
    /\ outBase' = Len(outFile.rows)
    /\ IF nothing_to_process(file_paths')
       THEN pc' = "done" /\ Completed(outFile)
       ELSE pc' = "open" /\ UNCHANGED <<doneSince, completedRows>>
    /\ tasks' = {}
    /\ outqueue' = <<>>
    /\ UNCHANGED <<corpus, outFile, outBuf, worker, worker_processed_files,
                   returned>>

\* main(), line 198: lmoments.csv is opened for appending.
OpenOutput ==
    /\ pc = "open"
    /\ outFile' = open_append(outFile)
    /\ pc' = "header"
    /\ UNCHANGED <<corpus, outBuf, failFile, processed_files, file_paths,
                   total_files, processed_files_count, tasks, worker,
                   worker_processed_files, outqueue, outBase,
                   returned, writers, doneSince, completedRows>>

\* main(), lines 201-209: the header is written and flushed.
WriteHeader ==
    /\ pc = "header"
    /\ LET rows == header_rows(outFile)
           flushed == flush(outFile, outBuf \o rows) IN
        /\ outFile' = IF rows = <<>> THEN outFile ELSE flushed.file
        /\ outBuf' = IF rows = <<>> THEN outBuf ELSE flushed.buf
        /\ writers' = IF rows = <<>> THEN writers
                      ELSE writers \cup {<<"result", "orchestrator">>}
    /\ pc' = "pool"
    /\ UNCHANGED <<corpus, failFile, processed_files, file_paths,
                   total_files, processed_files_count, tasks, worker,
                   worker_processed_files, outqueue, outBase,
                   returned, doneSince, completedRows>>

\* main(), line 214: the pool starts. A forked worker holds the global set as
\* main() left it; a spawned one imports the module again and holds set().
StartPool ==
    /\ pc = "pool"
    /\ \E forked \in BOOLEAN :
         worker_processed_files' = IF forked THEN processed_files ELSE {}
    /\ tasks' = file_paths
    /\ worker' = [w \in Workers |-> IdleWorker]
    /\ outqueue' = <<>>
    /\ pc' = "recv"
    /\ UNCHANGED <<corpus, outFile, outBuf, failFile, processed_files,
                   file_paths, total_files, processed_files_count,
                   outBase, returned, writers, doneSince,
                   completedRows>>

\* A worker takes the next item of imap_unordered and runs process_file, lines
\* 83-92: the item is skipped when the worker's set holds it; otherwise the
\* file is parsed, and a failure to parse is logged.
Take(w) ==
    /\ pc \in PoolAlive
    /\ worker[w].st = "idle"
    /\ \E item \in tasks :
        /\ tasks' = tasks \ {item}
        /\ IF item[1] \in worker_processed_files
           THEN /\ outqueue' = Append(outqueue, NoResult)
                /\ UNCHANGED <<worker, failFile, writers>>
           ELSE LET parsed == parse_network_data(item[1],
                                               FileAt(item[1]).content) IN
                /\ failFile' = log_all(failFile, parsed.log)
                /\ writers' = IF parsed.log = <<>> THEN writers
                              ELSE writers \cup {<<"failure", "worker">>}
                /\ worker' = [worker EXCEPT ![w] = [st |-> "build",
                                                    item |-> item,
                                                    G |-> parsed.G]]
                /\ UNCHANGED outqueue
    /\ UNCHANGED <<corpus, outFile, outBuf, pc, processed_files, file_paths,
                   total_files, processed_files_count,
                   worker_processed_files, outBase, returned,
                   doneSince, completedRows>>

\* process_file, lines 94-137: the row is built or the item is rejected and
\* logged; the worker returns the row, or None.
Build(w) ==
    /\ pc \in PoolAlive
    /\ worker[w].st = "build"
    /\ LET built == graph_outcomes[FileAt(worker[w].item[1]),
                                   worker[w].item[2]] IN
        /\ failFile' = log_all(failFile, built.log)
        /\ writers' = IF built.log = <<>> THEN writers
                      ELSE writers \cup {<<"failure", "worker">>}
        /\ outqueue' = Append(outqueue, built.result)
    /\ worker' = [worker EXCEPT ![w] = IdleWorker]
    /\ UNCHANGED <<corpus, outFile, outBuf, pc, processed_files, file_paths,
                   total_files, processed_files_count, tasks,
                   worker_processed_files, outBase, returned,
                   doneSince, completedRows>>

\* The loop of main() without processed_files_count += 1.
Receive_uncounted ==
    /\ pc = "recv"
    /\ processed_files_count < total_files
    /\ outqueue # <<>>
    /\ outqueue' = Tail(outqueue)
    /\ processed_files_count' = processed_files_count
    /\ IF Head(outqueue).none
       THEN pc' = "recv" /\ UNCHANGED outBuf
       ELSE pc' = "flush" /\ outBuf' = writerow(outBuf, Head(outqueue).row)
    /\ UNCHANGED <<corpus, outFile, failFile, processed_files,
                   file_paths, total_files, tasks, worker,
                   worker_processed_files, outBase, returned,
                   writers, doneSince, completedRows>>

\* main(), lines 215-218 and 220, and write_result_to_csv, lines 141-142: the
\* next in completion order; a row goes to the buffer of csvfile.
Receive ==
    /\ pc = "recv"
    /\ processed_files_count < total_files
    /\ outqueue # <<>>
    /\ outqueue' = Tail(outqueue)
    /\ processed_files_count' = processed_files_count + 1
    /\ IF Head(outqueue).none
       THEN pc' = "recv" /\ UNCHANGED outBuf
       ELSE pc' = "flush" /\ outBuf' = writerow(outBuf, Head(outqueue).row)
    /\ UNCHANGED <<corpus, outFile, failFile, processed_files,
                   file_paths, total_files, tasks, worker,
                   worker_processed_files, outBase, returned,
                   writers, doneSince, completedRows>>

\* write_result_to_csv, line 143, and main(), lines 219-220.
FlushRow ==
    /\ pc = "flush"
    /\ outFile' = flush(outFile, outBuf).file
    /\ outBuf' = flush(outFile, outBuf).buf
    /\ writers' = writers \cup {<<"result", "orchestrator">>}
    /\ LET result == outBuf[Len(outBuf)] IN
        /\ processed_files' = processed_files \cup {result[1]}
        /\ returned' = returned \cup {result[1]}
    /\ pc' = "recv"
    /\ UNCHANGED <<corpus, failFile, file_paths, total_files,
                   processed_files_count, tasks, worker,
                   worker_processed_files, outqueue, outBase,
                   doneSince, completedRows>>

\* main(), lines 214-222: the loop ends, the pool and the file are closed.
EndRun ==
    /\ pc = "recv"
    /\ processed_files_count = total_files
    /\ outFile' = close(outFile, outBuf)
    /\ outBuf' = <<>>
    /\ pc' = "done"
    /\ Completed(outFile')
    /\ UNCHANGED <<corpus, failFile, processed_files, file_paths, total_files,
                   processed_files_count, tasks, worker,
                   worker_processed_files, outqueue, outBase,
                   returned, writers>>

\* The run dies, and the workers and the memory of main() with it. The
\* buffer of csvfile reaches the disk when the file is closed on the way out
\* (an exception) and is lost when the process is killed.
Crash ==
    /\ pc \notin NotRunning
    /\ \E closed \in BOOLEAN :
         outFile' = IF closed /\ pc # "open" THEN close(outFile, outBuf)
                    ELSE outFile
    /\ outBuf' = <<>>
    /\ processed_files' = {}
    /\ file_paths' = {}
    /\ total_files' = 0
    /\ processed_files_count' = 0
    /\ tasks' = {}
    /\ worker' = [w \in Workers |-> IdleWorker]
    /\ worker_processed_files' = {}
    /\ outqueue' = <<>>
    /\ pc' = "crashed"
    /\ UNCHANGED <<corpus, failFile, outBase, returned,
                   writers, doneSince, completedRows>>

Next ==
    \/ AddFile /\ UNCHANGED callVars
    \/ StartRun /\ UNCHANGED callVars
    \/ OpenOutput /\ UNCHANGED callVars
    \/ WriteHeader /\ UNCHANGED callVars
    \/ StartPool /\ UNCHANGED callVars
    \/ \E w \in Workers : Take(w) /\ UNCHANGED callVars
    \/ \E w \in Workers : Build(w) /\ UNCHANGED callVars
    \/ Receive /\ UNCHANGED callVars
    \/ FlushRow /\ UNCHANGED callVars
    \/ EndRun /\ UNCHANGED callVars
    \/ Crash /\ UNCHANGED callVars

Spec == Init /\ [][Next]_vars

\* main() when nothing kills it.
FairNext ==
    \/ AddFile /\ UNCHANGED callVars
    \/ StartRun /\ UNCHANGED callVars
    \/ OpenOutput /\ UNCHANGED callVars
    \/ WriteHeader /\ UNCHANGED callVars
    \/ StartPool /\ UNCHANGED callVars
    \/ \E w \in Workers : Take(w) /\ UNCHANGED callVars
    \/ \E w \in Workers : Build(w) /\ UNCHANGED callVars
    \/ Receive /\ UNCHANGED callVars
    \/ FlushRow /\ UNCHANGED callVars
    \/ EndRun /\ UNCHANGED callVars

\* The next step of main() once it has started, and of a worker of the pool.
MainStep ==
    (OpenOutput \/ WriteHeader \/ StartPool \/ Receive \/ FlushRow \/ EndRun)
        /\ UNCHANGED callVars

WorkerStep(w) == (Take(w) \/ Build(w)) /\ UNCHANGED callVars

\* Every process is scheduled: main() goes on once started, and a worker
\* takes an item when it is idle and one is left, and finishes the item it
\* holds.
Fairness ==
    /\ WF_vars(MainStep)
    /\ \A w \in Workers : WF_vars(WorkerStep(w))

FairSpec == Init /\ [][FairNext]_vars /\ Fairness

\* ------------------------------------------------- one call of process_file
\* Nodes and edges of the graphs process_file is given.
MaxNodes == 4
MaxEdges == 4

Shapes == {"distinct", "constant", "object"}

\* The contents a .dot file can have: a file that does not parse has no
\* graph; a directed graph of n nodes has at most n * n edges, is strongly
\* connected only with n edges or more (or a single node), and is connected
\* only with n - 1 edges or more.
Contents ==
    { c \in [parses : BOOLEAN, nodes : 0..MaxNodes, edges : 0..MaxEdges,
             connectivity : {"strong", "weak", "none"},
             centrality_raises : BOOLEAN, shapes : [1..4 -> Shapes]] :
        /\ ~c.parses => c = Content(FALSE, 0, 0, "none", FALSE, Plain)
        /\ c.edges <= c.nodes * c.nodes
        /\ c.nodes = 0 => c.connectivity = "none"
        /\ c.nodes = 1 => c.connectivity = "strong"
        /\ c.connectivity = "strong" => c.nodes = 1 \/ c.edges >= c.nodes
        /\ c.connectivity = "weak" => c.edges >= c.nodes - 1 }

ItemPath(is_malicious) ==
    path_join(IF is_malicious THEN malicious_directory
              ELSE nonmalicious_directory, <<"x", ".dot">>)

ItemInit ==
    /\ RunInit
    /\ \E is_malicious \in BOOLEAN, content \in Contents, seen \in BOOLEAN :
          args = [file_path |-> ItemPath(is_malicious),
                  is_malicious |-> is_malicious,
                  content |-> content,
                  ledger |-> IF seen THEN {ItemPath(is_malicious)} ELSE {}]
    /\ outcome = NotCalled
    /\ sample = <<>>
    /\ estimate = NotEstimated

\* process_file(args) runs and returns.
ProcessItem ==
    /\ ~outcome.done
    /\ LET r == process_file(args.file_path, args.is_malicious, args.content,
                             args.ledger) IN
         outcome' = [done |-> TRUE, log |-> r.log, result |-> r.result,
                     ran |-> r.ran]
    /\ UNCHANGED <<runVars, args, sample, estimate>>

ItemNext == ProcessItem

ItemSpec == ItemInit /\ [][ItemNext]_vars

\* ------------------------------------------- one call of calculate_lmoments
\* The longest series and the largest value calculate_lmoments is given.
MaxLen == 5
MaxVal == 5

Floats == { Num(i) : i \in 1..MaxVal } \cup {NaN, Inf}

Samples == UNION { [1..len -> Floats] : len \in 0..MaxLen }

LmomInit ==
    /\ RunInit
    /\ args = NoArgs
    /\ outcome = NotCalled
    /\ sample \in Samples
    /\ estimate = NotEstimated

\* calculate_lmoments(sample) runs and returns.
Estimate ==
    /\ ~estimate.done
    /\ LET r == calculate_lmoments(sample) IN
         estimate' = [done |-> TRUE, raised |-> r.raised, v |-> r.v]
    /\ UNCHANGED <<runVars, args, outcome, sample>>

LmomNext == Estimate

LmomSpec == LmomInit /\ [][LmomNext]_vars

\* ----------------------------------------------------------- the claims
\* The identities (first column) of a sequence of rows.
Ids(rows) == { rows[i][1] : i \in DOMAIN rows }

\* The rows of a sequence with a given identity.
Count(rows, id) == Cardinality({ i \in DOMAIN rows : rows[i][1] = id })

IsPrefix(s, t) == Len(s) <= Len(t) /\ SubSeq(t, 1, Len(s)) = s

\* The rows the two sinks held when this run started, and those added since.
OutRowsAtStart == SubSeq(outFile.rows, 1, outBase)
RunOutRows == SubSeq(outFile.rows, outBase + 1, Len(outFile.rows))
RunOutData == SelectSeq(RunOutRows, LAMBDA r : r # columns)
RunFailRows == SelectSeq(failFile.rows, LAMBDA r : r # unprocessed_header)

Paths(items) == { item[1] : item \in items }

\* The items some worker holds.
InWorkers == { worker[w].item : w \in { v \in Workers : worker[v].st # "idle" } }

\* C1: after any crashed or not, over a corpus that may grow, no
\* identity is in more than one data row of lmoments.csv.
C1_NoDuplicateIdentity ==
    LET data == DataRows(outFile) IN
    \A i, j \in DOMAIN data : data[i][1] = data[j][1] => i = j

\* A second run has appended a row to the rows an earlier run wrote.
C1_Witness ==
    /\ Len(SelectSeq(OutRowsAtStart, LAMBDA r : r # columns)) >= 1
    /\ Len(RunOutData) >= 1

\* C2: a run to completion over the corpus an earlier completed run saw
\* leaves the data rows of lmoments.csv as that run left them: the same
\* identities, no row added, no row removed.
C2_IdempotentResume ==
    (pc = "done" /\ doneSince >= 2) =>
        /\ Ids(DataRows(outFile)) = Ids(completedRows)
        /\ DataRows(outFile) = completedRows

\* The second completed run had an item to process again and rows to keep.
C2_Witness ==
    /\ pc = "done"
    /\ doneSince = 2
    /\ completedRows # <<>>
    /\ file_paths # {}

\* C3: the items of a run are the .dot files of the corpus, under either
\* directory and with its label, whose path is not the first column of a data
\* row lmoments.csv held at the start; the pool is handed exactly these.
C3_Expected ==
    { <<FilePath(f), f.dir = "Malicious">> :
        f \in { g \in corpus :
                  /\ g.filename[Len(g.filename)] = ".dot"
                  /\ FilePath(g) \notin
                        Ids(SelectSeq(OutRowsAtStart, LAMBDA r : r # columns)) } }

C3_ResumeLedger ==
    /\ pc \notin NotRunning => file_paths = C3_Expected
    /\ pc \in PoolAlive =>
          /\ tasks \cup InWorkers \subseteq file_paths
          /\ (processed_files_count = 0 /\ outqueue = <<>> /\ InWorkers = {})
                => tasks = file_paths

\* Two identities are in the file, the corpus holds a third .dot file and a
\* file of another extension, and only the third is dispatched.
C3_Witness ==
    /\ pc = "recv"
    /\ Cardinality(Ids(SelectSeq(OutRowsAtStart, LAMBDA r : r # columns))) = 2
    /\ Cardinality(file_paths) = 1
    /\ tasks = file_paths

\* C4: only the orchestrator writes to lmoments.csv and to
\* unprocessed_files.csv; no worker writes to either.
C4_OnlyOrchestratorWrites ==
    \A wr \in writers : wr[2] = "orchestrator"

\* C5: when a run has ended, every item it rejected has exactly one row in
\* unprocessed_files.csv among the rows of this run.
C5_OneFailureRowPerRejected ==
    pc = "done" =>
        \A item \in file_paths :
            item[1] \notin Ids(RunOutData) => Count(RunFailRows, item[1]) = 1

\* C6: among the rows a run adds, no identity is both in lmoments.csv and in
\* unprocessed_files.csv.
C6_AtMostOneSink ==
    Ids(RunOutData) \cap Ids(RunFailRows) = {}

\* A run that ended added a row to each of the two files.
C6_Witness ==
    /\ pc = "done"
    /\ RunOutData # <<>>
    /\ RunFailRows # <<>>

\* C7: when a run has ended, every item of the run has been processed and has
\* a row of this run in lmoments.csv or a row of this run, under its own
\* path, in unprocessed_files.csv; a rejected item stops neither the pool nor
\* main().
C7_FailureIsolation ==
    /\ pc = "done" =>
          /\ processed_files_count = total_files
          /\ \A item \in file_paths :
                \/ item[1] \in Ids(RunOutData)
                \/ item[1] \in Ids(RunFailRows)
    /\ pc # "crashed" => Ids(RunFailRows) \subseteq Paths(file_paths)

\* A run ended in which one item was rejected and another got its row.
C7_Witness ==
    /\ pc = "done"
    /\ \E a, b \in file_paths :
          /\ a[1] \in Ids(RunFailRows)
          /\ b[1] \in Ids(RunOutData)

\* C8: once write_result_to_csv has returned for a row, the row is in
\* lmoments.csv on disk whatever happens next, and no later run processes its
\* identity again.
C8_CrashSafe ==
    /\ returned \subseteq Ids(DataRows(outFile))
    /\ \A id \in returned :
          /\ id \in Paths(file_paths) => id \in Ids(RunOutData)
          /\ id \notin Paths(tasks \cup InWorkers)

\* The run crashed after a row write had returned.
C8_Witness ==
    /\ pc = "crashed"
    /\ returned # {}
    /\ RunOutData # <<>>

\* C9: a non-empty lmoments.csv has the header as its first row and nowhere
\* else, so the rows get_processed_files reads are all its data rows.
C9_HeaderOnce ==
    outFile.rows # <<>> =>
        /\ outFile.rows[1] = columns
        /\ \A i \in DOMAIN outFile.rows : outFile.rows[i] = columns => i = 1
        /\ get_processed_files(outFile)
              = { outFile.rows[i][1] :
                    i \in { k \in DOMAIN outFile.rows : outFile.rows[k] # columns } }

\* A later run found the file with its header and a row, and added a row.
C9_Witness ==
    /\ pc = "done"
    /\ outBase >= 2
    /\ Len(outFile.rows) > outBase

\* C10: no step removes or rewrites a row of lmoments.csv: the file only ever
\* grows at its end, and so does the set of its identities.
C10_Monotonic ==
    [][ /\ IsPrefix(outFile.rows, outFile'.rows)
        /\ Ids(DataRows(outFile)) \subseteq Ids(DataRows(outFile'))
        /\ outFile.exists => outFile'.exists ]_vars

\* A run that crashed had appended to the rows of an earlier run.
C10_Witness ==
    /\ pc = "crashed"
    /\ outBase >= 2
    /\ Len(outFile.rows) > outBase

\* The values of a series that np.isfinite keeps.
FiniteCount(s) == Len(SelectSeq(s, LAMBDA v : v.k = "num"))

Zeros == <<Num(0), Num(0), Num(0), Num(0)>>

\* C13: for a series with fewer than four finite values, the empty series
\* and a series of four values or more that are mostly nan or inf included,
\* calculate_lmoments returns exactly 0, 0, 0, 0 and raises nothing.
C13_Degenerate ==
    (estimate.done /\ FiniteCount(sample) < 4) =>
        ~estimate.raised /\ estimate.v = Zeros

\* A series of four values or more of which some, but fewer than four, are
\* finite has been summarised.
C13_Witness ==
    /\ estimate.done
    /\ Len(sample) >= 4
    /\ FiniteCount(sample) \in 1..3

OneToFive == <<Num(1), Num(2), Num(3), Num(4), Num(5)>>

\* C14 as stated: for <<1, 2, 3, 4, 5>> calculate_lmoments returns L1 = 3.0
\* and L2 within 0.0001 of 1.3333.
C14_Original ==
    (estimate.done /\ sample = OneToFive) =>
        /\ ~estimate.raised
        /\ estimate.v[1] = Num(3)
        /\ LET l2 == estimate.v[2] IN
             /\ l2.k = "num"
             /\ abs(10000 * l2.n - 13333 * l2.d) <= l2.d

\* C14: for <<1, 2, 3, 4, 5>> calculate_lmoments returns L1 = 3.0 and
\* L2 = 1.0: b0 = 3 and b1 = 2, so that 2 * b1 - b0 = 1.
C14_OneToFive ==
    (estimate.done /\ sample = OneToFive) =>
        /\ ~estimate.raised
        /\ estimate.v[1] = Num(3)
        /\ estimate.v[2] = Num(1)
        /\ pwm[OneToFive, 0] = Num(3)
        /\ pwm[OneToFive, 1] = Num(2)

\* The series <<1, 2, 3, 4, 5>> has been summarised.
C14_Witness ==
    /\ estimate.done
    /\ sample = OneToFive
    /\ ~estimate.raised

\* C15: for a series of four finite values or more whose L2 is 0,
\* calculate_lmoments raises nothing and returns t3 = 0 and t4 = 0.
C15_ZeroSpread ==
    (/\ estimate.done
     /\ FiniteCount(sample) >= 4
     /\ estimate.raised \/ estimate.v[2] = Num(0)) =>
        /\ ~estimate.raised
        /\ estimate.v[3] = Num(0)
        /\ estimate.v[4] = Num(0)

\* The call of process_file under study has returned, and was not skipped.
Processed == outcome.done /\ args.file_path \notin args.ledger

\* The column of lmoments.csv with a given name (not the first).
Col(name) == CHOOSE i \in 2..Len(columns) : columns[i] = name

Messages(log) == { log[i][2] : i \in DOMAIN log }

\* C12: a graph with nodes and edges whose undirected projection is not
\* connected passes calculate_statistics, is not rejected on that account,
\* and its row, written unless a later stage fails, holds nan in the columns
\* Diameter and Average Path Length.
C12_DisconnectedSentinel ==
    (/\ Processed
     /\ args.content.parses
     /\ args.content.nodes > 0
     /\ args.content.edges > 0
     /\ args.content.connectivity = "none") =>
        /\ "Error calculating statistics" \notin Messages(outcome.log)
        /\ "centrality" \in { outcome.ran[i] : i \in DOMAIN outcome.ran }
        /\ (/\ ~args.content.centrality_raises
            /\ \A k \in 1..4 : args.content.shapes[k] # "object")
              => ~outcome.result.none
        /\ ~outcome.result.none =>
              /\ outcome.result.row[Col("Diameter")] = "nan"
              /\ outcome.result.row[Col("Average Path Length")] = "nan"
              /\ outcome.log = <<>>

\* A graph that is not connected has got its row.
C12_Witness ==
    /\ Processed
    /\ args.content.connectivity = "none"
    /\ args.content.edges > 0
    /\ ~outcome.result.none

SeriesNames == <<"Degree", "Betweenness", "Closeness", "Clustering">>
MomentNames == <<"L1", "L2", "T3", "T4">>

\* C16: a row process_file returns has the 25 fields of the header, in the
\* order of the header: path, label, the seven statistics, then for each of
\* the four series its L1, L2, T3 and T4, whether or not a summary is
\* 0, 0, 0, 0 and whether or not a statistic is nan.
C16_Schema ==
    (Processed /\ ~outcome.result.none) =>
        LET row == outcome.result.row
            G == Graph(args.content)
            series == calculate_centrality_measures(G)
        IN  /\ Len(row) = 25
            /\ Len(row) = Len(columns)
            /\ row[1] = args.file_path
            /\ row[2] = IF args.is_malicious THEN "Malicious" ELSE "Nonmalicious"
            /\ row[Col("Number of Nodes")] = str(args.content.nodes)
            /\ row[Col("Number of Edges")] = str(args.content.edges)
            /\ SubSeq(row, 3, 9) = calculate_statistics(G).v
            /\ \A k \in 1..4, j \in 1..4 :
                  row[Col(SeriesNames[k] \o " " \o MomentNames[j])]
                    = format_float(calculate_lmoments(series[k].values).v[j])

\* A row has been returned whose summaries are all 0, 0, 0, 0 (fewer than
\* four nodes) and whose diameter is nan.
C16_Witness ==
    /\ Processed
    /\ ~outcome.result.none
    /\ args.content.nodes < 4
    /\ outcome.result.row[Col("Degree L1")] = "0"
    /\ outcome.result.row[Col("Clustering T4")] = "0"
    /\ outcome.result.row[Col("Diameter")] = "nan"

StageOrder ==
    <<"parse", "empty_check", "statistics", "centrality", "lmoments", "row">>

\* Whether a stage fails on a content, were it to run.
Fails(stage, c) ==
    CASE stage = "parse"       -> ~c.parses
      [] stage = "empty_check" -> ~c.parses \/ c.nodes = 0 \/ c.edges = 0
      [] stage = "statistics"  -> c.connectivity = "weak"
      [] stage = "centrality"  -> c.centrality_raises
      [] stage = "lmoments"    -> \E k \in 1..4 : c.shapes[k] = "object"
      [] OTHER                 -> FALSE

ErrorClass(stage) ==
    CASE stage = "parse"       -> "Error parsing"
      [] stage = "empty_check" -> "Graph is empty or couldn't be parsed."
      [] stage = "statistics"  -> "Error calculating statistics"
      [] stage = "centrality"  -> "Error calculating centrality measures"
      [] OTHER                 -> "Error processing"

\* The stages up to the first that fails, or all of them.
RECURSIVE UpToFirstFailure(_, _)
UpToFirstFailure(stages, c) ==
    IF stages = <<>> THEN <<>>
    ELSE IF Fails(Head(stages), c) THEN <<Head(stages)>>
    ELSE <<Head(stages)>> \o UpToFirstFailure(Tail(stages), c)

\* C18: process_file runs its stages in the order parse, empty-graph check,
\* statistics, centrality, L-moments, row; the first stage that fails is the
\* last to run, no row is returned, and the one record logged is of the class
\* of that stage; the row is assembled only when no stage has failed.
C18_ShortCircuit ==
    Processed =>
        LET expected == UpToFirstFailure(StageOrder, args.content)
            last == expected[Len(expected)]
        IN  /\ outcome.ran = expected
            /\ IF Fails(last, args.content)
               THEN /\ outcome.result.none
                    /\ outcome.log = << <<args.file_path, ErrorClass(last)>> >>
               ELSE /\ ~outcome.result.none
                    /\ outcome.log = <<>>

\* What process_file logs for a file that does not parse.
ParseFailureLog ==
    process_file(args.file_path, args.is_malicious,
                 Content(FALSE, 0, 0, "none", FALSE, Plain), {}).log

\* C11: a graph that parses and has no node or no edge gets no row and one
\* record in unprocessed_files.csv, whose message is not a message logged
\* for a file that does not parse.
C11_EmptyGraph ==
    (/\ Processed
     /\ args.content.parses
     /\ args.content.nodes = 0 \/ args.content.edges = 0) =>
        /\ outcome.result.none
        /\ Len(outcome.log) = 1
        /\ outcome.log[1][1] = args.file_path
        /\ outcome.log[1][2] \notin Messages(ParseFailureLog)

\* C17: once main() has accepted the row of an identity in this run, a worker
\* given that identity again finds it in processed_files and returns None.
C17_SecondSubmissionRejected ==
    pc \in PoolAlive =>
        \A id \in Ids(RunOutData) :
            /\ id \in processed_files
            /\ \A is_malicious \in BOOLEAN :
                  process_file(id, is_malicious, FileAt(id).content,
                               worker_processed_files).result.none

\* The busy workers.
Busy == { w \in Workers : worker[w].st # "idle" }

\* Every item of the run is in one place: not yet taken, held by one worker,
\* returned and not yet received, or counted by main().
C19_ExactlyOnce ==
    /\ processed_files_count <= total_files
    /\ pc \in PoolAlive =>
          /\ \A w \in Busy : worker[w].item \in file_paths \ tasks
          /\ \A v, w \in Busy : worker[v].item = worker[w].item => v = w
          /\ Cardinality(tasks) + Cardinality(Busy) + Len(outqueue)
                + processed_files_count = total_files
    /\ pc = "done" => processed_files_count = total_files

\* C19: every item is taken once, by one worker, and main() receives one
\* result for it; processed_files_count never exceeds total_files; and when
\* nothing kills the run and every worker finishes, a run that has started
\* ends with processed_files_count = total_files.
C19_Termination ==
    /\ []C19_ExactlyOnce
    /\ (pc \notin NotRunning) ~> (pc = "done" /\ processed_files_count = total_files)

\* A run over more items than the pool has workers has ended.
C19_Witness ==
    /\ pc = "done"
    /\ total_files > NumWorkers
    /\ processed_files_count = total_files

\* The .dot files of the corpus with no data row in lmoments.csv.
Pending ==
    { f \in corpus : /\ f.filename[Len(f.filename)] = ".dot"
                     /\ FilePath(f) \notin Ids(DataRows(outFile)) }

\* C20: a run that finds nothing to process ends at once: the pool is not
\* started, and lmoments.csv is left as it was, not created when absent,
\* with no header and no row added.
C20_NothingToDo ==
    [][ (pc \in NotRunning /\ corpus' = corpus /\ Pending = {}) =>
            /\ pc' = "done"
            /\ outFile' = outFile
            /\ outBuf' = outBuf
            /\ tasks' = {}
            /\ \A w \in Workers : worker'[w].st = "idle" ]_vars

\* A run over a corpus with no .dot file has ended, and lmoments.csv does
\* not exist.
C20_Witness ==
    /\ pc = "done"
    /\ doneSince >= 1
    /\ corpus # {}
    /\ file_paths = {}
    /\ ~outFile.exists
====
